---------------------------- MODULE Spec2Model ----------------------------
(***************************************************************************)
(* SSARA data_utils: the converters gmtsar2hdf5.py, roipac2hdf5.py and     *)
(* isce2hdf5.py, modelled as state machines.                               *)
(*                                                                         *)
(*   SpecCodec  the raster readers read_float32 / read_complex64 applied   *)
(*              to one raw file (a sequence of samples) and its dimensions *)
(*   Spec       one converter run after another: main() of each script,    *)
(*              cut into the steps at which an exception can leave it,     *)
(*              against a file system that keeps the .h5 containers        *)
(*                                                                         *)
(* Numbers are integers (fixed point); a numpy array is a sequence of rows,*)
(* a Python dict a function whose DOMAIN is its key set, None of an        *)
(* optional command-line argument the empty tuple and a given value v the  *)
(* one-tuple <<v>>.                                                        *)
(***************************************************************************)
EXTENDS Integers, Sequences, FiniteSets, TLC

(***************************************************************************)
(* Bounds of the model.                                                    *)
(***************************************************************************)
\* a raster has at most MaxCells samples per plane (length * width)
MaxCells == 4
\* a raw file is at most MaxSkew samples shorter or longer than its layout
MaxSkew == 2
\* the largest sample value of a float32 raster (values 0..MaxSample)
MaxSample == 1

Min(a, b) == IF a < b THEN a ELSE b

Max(a, b) == IF a < b THEN b ELSE a

(***************************************************************************)
(* numpy, as far as the readers use it.                                    *)
(***************************************************************************)
\* np.fromfile(file, dtype, count): the first count items of the file, or
\* all of them when the file holds fewer
fromfile(file, count) == SubSeq(file, 1, Min(Len(file), count))

\* ndarray.reshape(rows, cols) raises ValueError unless the sizes agree
reshape_ok(data, rows, cols) == Len(data) = rows * cols

\* a slip: the samples taken column by column (Fortran order)
reshape_columns(data, rows, cols) ==
  [i \in 1..rows |-> [j \in 1..cols |-> data[(j - 1) * rows + i]]]

\* ndarray.reshape(rows, cols), row-major
reshape(data, rows, cols) ==
  [i \in 1..rows |-> [j \in 1..cols |-> data[(i - 1) * cols + j]]]

\* np.where(np.arange(n) & 1)[0]: the odd numbers below n, ascending
\* (0-based row numbers)
oddindices(n) == [k \in 1..(n \div 2) |-> 2 * k - 1]

\* data.take(indices, axis=0): the rows of data at the 0-based indices
take(data, indices) == [k \in 1..Len(indices) |-> data[indices[k] + 1]]

\* a float32 component is -1, 0, 1 or the negative zero -0.0, which equals 0
\* and has the sign bit set
NegZero == -2

fvalue(x) == IF x = NegZero THEN 0 ELSE x

signbit(x) == x < 0

\* np.hypot(re, im) of one complex sample z = <<re, im>>, squared
hypot2(z) == fvalue(z[1]) * fvalue(z[1]) + fvalue(z[2]) * fvalue(z[2])

\* np.arctan2(im, re) of one complex sample, in units of pi/4.  For a zero
\* imaginary part the sign bits decide, as in C's atan2: 0 for a real part
\* without sign bit, pi for a real part with sign bit and im = +0.0, -pi
\* for a real part with sign bit and im = -0.0
arctan2(z) ==
  LET re == fvalue(z[1])
      im == fvalue(z[2])
  IN  CASE im = 0 /\ ~signbit(z[1]) -> 0
        [] im = 0 /\ signbit(z[1]) /\ ~signbit(z[2]) -> 4
        [] im = 0 /\ signbit(z[1]) /\ signbit(z[2]) -> -4
        [] im > 0 /\ re > 0 -> 1
        [] im > 0 /\ re = 0 -> 2
        [] im > 0 /\ re < 0 -> 3
        [] im < 0 /\ re > 0 -> -1
        [] im < 0 /\ re = 0 -> -2
        [] OTHER -> -3

\* what a reader returns: the exception that left it, or the two planes
Raised(e) == [err |-> e, a |-> <<>>, p |-> <<>>]

Returned(a, p) == [err |-> "none", a |-> a, p |-> p]

\* a call that has not been made yet
Pending == [err |-> "pending", a |-> <<>>, p |-> <<>>]

(***************************************************************************)
(* read_float32(infile, length, width): rows 0, 2, 4, ... of the           *)
(* (2*length) x width array are plane a, rows 1, 3, 5, ... plane p.        *)
(***************************************************************************)
\* a slip: plane a taken from the odd rows as well
float32_rows_a_odd(length) == oddindices(length * 2)

float32_rows_a(length) ==
  [k \in 1..Len(oddindices(length * 2)) |-> oddindices(length * 2)[k] - 1]

float32_rows_p(length) == oddindices(length * 2)

read_float32(file, length, width) ==
  LET raw == fromfile(file, length * 2 * width)
  IN  IF ~reshape_ok(raw, length * 2, width)
      THEN Raised("ValueError")
      ELSE LET data == reshape(raw, length * 2, width)
           IN  Returned(take(data, float32_rows_a(length)),
                        take(data, float32_rows_p(length)))

(***************************************************************************)
(* read_complex64(infile, length, width): asks fromfile for                *)
(* length*2*width complex samples and reshapes what it got to              *)
(* length x width.                                                         *)
(***************************************************************************)
read_complex64(file, length, width) ==
  LET raw == fromfile(file, length * 2 * width)
  IN  IF ~reshape_ok(raw, length, width)
      THEN Raised("ValueError")
      ELSE LET data == reshape(raw, length, width)
           IN  Returned([i \in 1..length |-> [j \in 1..width |-> hypot2(data[i][j])]],
                        [i \in 1..length |-> [j \in 1..width |-> arctan2(data[i][j])]])


(***************************************************************************)
(* State.  The c_ variables are the raster reader's call (SpecCodec).      *)
(***************************************************************************)
VARIABLES
  c_layout,   \* "float32" (read_float32) or "complex64" (read_complex64)
  c_length,   \* the length argument
  c_width,    \* the width argument
  c_file,     \* the raw file: a sequence of samples
  c_srcA,     \* the array the file was built from: plane A (float32), or
              \* the array of complex samples (complex64)
  c_srcB,     \* plane B of a float32 file
  c_out       \* Pending, or what the reader returned or raised

codecVars == <<c_layout, c_length, c_width, c_file, c_srcA, c_srcB, c_out>>

(***************************************************************************)
(* Synthetic raw files.                                                    *)
(***************************************************************************)
\* the dimensions a raster can have within the bounds (0 included: an empty
\* raster)
Dims == {d \in (0..MaxCells) \X (0..MaxCells) : d[1] * d[2] <= MaxCells}

\* all length x width arrays over the value set V
Arrays(length, width, V) == [1..length -> [1..width -> V]]

FloatSamples == 0..MaxSample

ComplexSamples ==
  {<<0, 0>>, <<1, 0>>, <<-1, 0>>, <<-1, NegZero>>, <<1, 1>>, <<-1, -1>>}

\* the rows of an array one after another
RECURSIVE Flatten(_)
Flatten(rows) ==
  IF Len(rows) = 0 THEN <<>> ELSE Head(rows) \o Flatten(Tail(rows))

\* InterleavedFloat32Pairs: row index 2k holds A's row k, row index 2k+1
\* holds B's row k (0-based)
Interleave(A, B) ==
  Flatten([r \in 1..(2 * Len(A)) |->
             IF r % 2 = 1 THEN A[(r + 1) \div 2] ELSE B[r \div 2]])

\* a file cut by -skew samples (skew < 0) or padded with skew samples
Skewed(base, skew, pad) ==
  IF skew < 0
  THEN SubSeq(base, 1, Max(Len(base) + skew, 0))
  ELSE base \o [k \in 1..skew |-> pad]

CodecIdle ==
  /\ c_layout = "none"
  /\ c_length = 0
  /\ c_width = 0
  /\ c_file = <<>>
  /\ c_srcA = <<>>
  /\ c_srcB = <<>>
  /\ c_out = Pending

\* the footprint functions on their own: the four corners of a scene, each
\* <<latitude, longitude>>, in the order nearEarly, farEarly, nearLate,
\* farLate; the function called; the polygon it returned
VARIABLES fp_corners, fp_path, fp_out

footprintVars == <<fp_corners, fp_path, fp_out>>

\* read_prm on its own: the lines of the file, the number of lines the loop
\* has read, prm_dict, where the call is (called, reading, returned, or the
\* exception it raised), and whether the file object it opened is open
VARIABLES p_file, p_i, p_dict, p_state, p_open

prmVars == <<p_file, p_i, p_dict, p_state, p_open>>

(***************************************************************************)
(* The converters.  A run is main() of one script: the command line is     *)
(* argv, the input files are disk, and the .h5 file the run names is h5.   *)
(* Command line and input files are chosen before the first run and stay;  *)
(* the .h5 file is what earlier runs left.                                 *)
(***************************************************************************)
VARIABLES
  conv,        \* the script: "gmtsar", "roipac" or "isce"
  argv,        \* the options given on the command line: dest |-> value
  disk,        \* the input files: sidecars, rasters, log
  pc,          \* where main() is: "start", ..., "exit"
  status,      \* the exit status of the last run that ended (-1: none yet)
  raised,      \* the exception that ended the run, "none" otherwise
  runs,        \* the number of runs started
  clos,        \* main's clos: the parsed command line
  master,      \* prm_master / rsc_master / insarProc.xml master
  slave,       \* prm_slave / rsc_slave / insarProc.xml slave
  sidecars,    \* the other dicts main reads: rsc_baseline, wraprsc, dictOut
  first_date,  \* main's first_date: <<day, tick of the day>>
  last_date,   \* main's last_date
  planes,      \* the decoded rasters main holds: name |-> array
  meta_dict,   \* main's meta_dict
  h5file,      \* main's h5file: the destination path, None before it is set
  f_open,      \* whether the h5py.File f is open
  h5           \* the .h5 file at the run's destination path

runVars == <<pc, status, raised, runs, clos, master, slave, sidecars, first_date,
             last_date, planes, meta_dict, h5file, f_open, h5>>

envVars == <<conv, argv, disk>>

\* the largest day number of an acquisition (days 0..MaxDay)
MaxDay == 1
\* the times of day a SENSING_START can carry (ticks 0..TicksPerDay-1)
TicksPerDay == 2
\* the number of runs of the converter on the same inputs
MaxRuns == 2

(***************************************************************************)
(* Python values.                                                          *)
(***************************************************************************)
\* None, and a value that is not None
None == <<>>

Some(v) == <<v>>

\* bool(x) of an optional string / an optional int
TruthyStr(o) == o # None /\ o[1] # ""

TruthyInt(o) == o # None /\ o[1] # 0

\* an empty dict, d[k] = v, and d.update(e)
EmptyDict == [k \in {} |-> None]

Put(d, k, v) == [x \in (DOMAIN d) \cup {k} |-> IF x = k THEN v ELSE d[x]]

Update(d, e) ==
  [x \in (DOMAIN d) \cup (DOMAIN e) |-> IF x \in DOMAIN e THEN e[x] ELSE d[x]]

\* d with the entry k |-> v when cond holds (if cond: d[k] = v)
PutIf(cond, d, k, v) == IF cond THEN Put(d, k, v) ELSE d

\* argparse: the value given for dest, else the default
Arg(args, dest, default) ==
  IF dest \in DOMAIN args THEN Some(args[dest]) ELSE default

(***************************************************************************)
(* Dates.  A datetime is <<day, tick>>; strptime of a date without a time  *)
(* of day gives tick 0.                                                    *)
(***************************************************************************)
\* (a - b).days: the timedelta is normalised so that its seconds are not
\* negative, its days are the floor
timedelta_days(a, b) ==
  ((a[1] * TicksPerDay + a[2]) - (b[1] * TicksPerDay + b[2])) \div TicksPerDay

Abs(n) == IF n < 0 THEN 0 - n ELSE n

\* abs((first_date-last_date).days)
temporal_baseline(first, last) == Abs(timedelta_days(first, last))

\* d.strftime("%Y%m%d"): the calendar date, the time of day dropped
strftime_Ymd(d) == d[1]

\* datetime.strptime(clock.split(".")[0], '%Y%j'): SC_clock_start is
\* <<day, fraction>>, the fraction is cut off before parsing
strptime_Yj(clock) == <<clock[1], 0>>

\* datetime.strptime(text, '%Y-%m-%d %H:%M:%S.%f'): date and time of day
strptime_full(text) == <<text[1], text[2]>>

\* datetime.strptime(rsc['DATE'], '%y%m%d')
strptime_ymd(date) == <<date, 0>>

(***************************************************************************)
(* Rasters and the .h5 container.                                          *)
(***************************************************************************)
\* the rasters of a run have at most MaxPCells samples per plane
MaxPCells == 2

\* the dimensions <<length, width>> of a raster of a run
PDims == {d \in Dims : d[1] >= 1 /\ d[2] >= 1 /\ d[1] * d[2] <= MaxPCells}

\* a raster of dimensions d holding base+1, base+2, ... row by row
Ramp(d, base) ==
  [i \in 1..d[1] |-> [j \in 1..d[2] |-> base + (i - 1) * d[2] + j]]

\* ndarray.shape of a 2-D array with at least one row
Shape(array) == <<Len(array), Len(array[1])>>

\* no file at the destination path
NoContainer ==
  [exists |-> FALSE, groups |-> {}, dsets |-> EmptyDict, attrs |-> EmptyDict,
   attr_log |-> <<>>]

\* h5py.File(h5file) with the default mode of h5py 2: open read/write,
\* create the file when there is none
h5py_File(file) == [file EXCEPT !.exists = TRUE]

\* a slip: the dataset is created under a name of its own
create_dataset_unnamed(file, name, data) ==
  [file EXCEPT !.dsets = Put(file.dsets, "dataset", data)]

\* group.create_dataset(name, data=data): a new dataset
create_dataset(file, name, data) ==
  [file EXCEPT !.dsets = Put(file.dsets, name, data)]

\* f.attrs[key] = value
set_attr(file, key, value) ==
  [file EXCEPT !.attrs = Put(file.attrs, key, value),
               !.attr_log = Append(file.attr_log, key)]

\* for name in seq: the datasets of seq written one after another, those
\* already in the group skipped (if not name in group), until a source
\* raster cannot be read; source[name] is the array, readable its domain
RECURSIVE write_datasets(_, _, _)
write_datasets(file, seq, source) ==
  IF seq = <<>> THEN [file |-> file, err |-> "none"]
  ELSE IF Head(seq) \in DOMAIN file.dsets
       THEN write_datasets(file, Tail(seq), source)
       ELSE IF Head(seq) \notin DOMAIN source
            THEN [file |-> file, err |-> "AttributeError"]
            ELSE write_datasets(create_dataset(file, Head(seq), source[Head(seq)]),
                                Tail(seq), source)

\* for key in order: f.attrs[key] = value, until a value has no HDF5 type
\* (None: h5py raises TypeError); optional[key] says the value may be None
RECURSIVE write_attrs(_, _, _, _)
write_attrs(file, order, dict, optional) ==
  IF order = <<>> THEN [file |-> file, err |-> "none"]
  ELSE IF Head(order) \in optional /\ dict[Head(order)] = None
       THEN [file |-> file, err |-> "TypeError"]
       ELSE write_attrs(set_attr(file, Head(order), dict[Head(order)]),
                        Tail(order), dict, optional)

\* the keys whose value in meta_dict is clos' optional itself
OptionalKeys == {"beam_swath"}

(***************************************************************************)
(* How a run moves on and ends.                                            *)
(***************************************************************************)
\* an uncaught exception: the interpreter exits with status 1 and closes f
Fail(e) ==
  /\ pc' = "exit"
  /\ status' = 1
  /\ raised' = e
  /\ f_open' = FALSE

\* argparse's error: usage on stderr, exit status 2
UsageError ==
  /\ pc' = "exit"
  /\ status' = 2
  /\ raised' = "SystemExit"
  /\ f_open' = FALSE

Goto(next) ==
  /\ pc' = next
  /\ UNCHANGED <<status, raised>>

At(script, where) == conv = script /\ pc = where

(***************************************************************************)
(* gmtsar2hdf5.py                                                          *)
(***************************************************************************)
\* a command line with or without the option dest
OptArg(dest, values) == {EmptyDict} \cup {Put(EmptyDict, dest, v) : v \in values}

GmtsarArgvs ==
  {Update(Update(Update(Update(Put(Put(EmptyDict, "scene_footprint", "POLYGON"),
                                   "relative_orbit", 7),
                               m), s), fr), fl) :
     m \in OptArg("mission", {"ALOS2"}),
     s \in OptArg("beam_swath", {"F1"}),
     fr \in OptArg("frame", {0, 1}),
     fl \in OptArg("flight_direction", {"A", "D"})}
  \cup {Put(EmptyDict, "scene_footprint", "POLYGON")}

\* master.PRM and slave.PRM as read_prm returns them
GmtsarPrmMasters ==
  {Update([SC_clock_start |-> <<day, 5>>, SC_identity |-> "5", PRF |-> "1600",
           radar_wavelength |-> "0.236", fd1 |-> "12.5"], o) :
     day \in 0..MaxDay, o \in OptArg("orbdir", {"A", "D"})}

GmtsarPrmSlaves ==
  {[SC_clock_start |-> <<day, 5>>, fd1 |-> "13.5", baseline_center |-> 120] :
     day \in 0..MaxDay}
  \cup {[fd1 |-> "13.5", baseline_center |-> 120]}

\* the dataset each .grd file is written as
GmtsarDatasets ==
  <<"wrapped_interferogram", "unwrapped_interferogram",
    "wrapped_filtered_interferogram", "correlation">>

\* the .grd files: corr_ll.grd has its own size, or one file is missing
GmtsarGrdFiles ==
  {[k \in {GmtsarDatasets[i] : i \in (1..4) \ {gone}} |->
      IF k = "correlation" THEN Ramp(dc, 0) ELSE Ramp(d, 10)] :
     gone \in 0..4, d \in PDims, dc \in PDims}

\* dset.GetGeoTransform() of phase_ll.grd: x first, x step, y first, y step
GmtsarGeoTransform == [x_first |-> 100, x_step |-> 2, y_first |-> 200, y_step |-> -3]

\* the input files: any two PRM files with all rasters in place and of one
\* size, or any rasters with the same PRM files
GmtsarDisks ==
  {[prm_master |-> pm, prm_slave |-> ps, grd |-> g] :
     pm \in GmtsarPrmMasters, ps \in GmtsarPrmSlaves,
     g \in {x \in GmtsarGrdFiles :
              /\ DOMAIN x = {GmtsarDatasets[i] : i \in 1..4}
              /\ \A k \in DOMAIN x : Shape(x[k]) = <<1, 1>>}}
  \cup
  {[prm_master |-> pm, prm_slave |-> ps, grd |-> g] :
     pm \in {x \in GmtsarPrmMasters :
               x["SC_clock_start"][1] = 0 /\ "orbdir" \notin DOMAIN x},
     ps \in {x \in GmtsarPrmSlaves :
               "SC_clock_start" \in DOMAIN x /\ x["SC_clock_start"][1] = MaxDay},
     g \in GmtsarGrdFiles}

\* parse(): the defaults of add_argument
gmtsar_parse(args) ==
  [prm1 |-> Arg(args, "prm1", Some("master.PRM")),
   prm2 |-> Arg(args, "prm2", Some("slave.PRM")),
   mission |-> Arg(args, "mission", None),
   relative_orbit |-> Arg(args, "relative_orbit", None),
   processing_type |-> Arg(args, "processing_type", Some("INTERFEROGRAM")),
   scene_footprint |-> Arg(args, "scene_footprint", None),
   beam_swath |-> Arg(args, "beam_swath", None),
   beam_mode |-> Arg(args, "beam_mode", None),
   frame |-> Arg(args, "frame", None),
   flight_direction |-> Arg(args, "flight_direction", Some("A")),
   look_direction |-> Arg(args, "look_direction", Some("R")),
   polarization |-> Arg(args, "polarization", None),
   processing_software |-> Arg(args, "processing_software", Some("GMTSAR")),
   processing_software_version |-> Arg(args, "processing_software_version", Some("9.4")),
   processing_atmos_correct_method |-> Arg(args, "processing_atmos_correct_method", None),
   processing_facility |-> Arg(args, "processing_facility", Some("UNAVCO")),
   master_platform |-> Arg(args, "master_platform", None),
   master_absolute_orbit |-> Arg(args, "master_absolute_orbit", None),
   slave_platform |-> Arg(args, "slave_platform", None),
   slave_absolute_orbit |-> Arg(args, "slave_absolute_orbit", None)]

\* the options add_argument marks required=True
GmtsarRequired == {"relative_orbit", "scene_footprint"}

\* clos = parse()
GmtsarParse ==
  /\ At("gmtsar", "start")
  /\ IF GmtsarRequired \subseteq DOMAIN argv
     THEN /\ clos' = gmtsar_parse(argv)
          /\ Goto("sidecars")
          /\ UNCHANGED f_open
     ELSE /\ UsageError
          /\ UNCHANGED clos
  /\ UNCHANGED <<runs, master, slave, sidecars, first_date, last_date, planes, meta_dict,
                 h5file, h5>>
  /\ UNCHANGED <<envVars, codecVars, footprintVars, prmVars>>

\* prm_master = read_prm(clos.prm1) ... last_date = strptime(...)
GmtsarReadPrm ==
  /\ At("gmtsar", "sidecars")
  /\ master' = disk.prm_master
  /\ slave' = disk.prm_slave
  /\ IF "SC_clock_start" \in DOMAIN disk.prm_master
        /\ "SC_clock_start" \in DOMAIN disk.prm_slave
     THEN /\ first_date' = strptime_Yj(disk.prm_master["SC_clock_start"])
          /\ last_date' = strptime_Yj(disk.prm_slave["SC_clock_start"])
          /\ Goto("resolve")
          /\ UNCHANGED f_open
     ELSE /\ Fail("KeyError")
          /\ UNCHANGED <<first_date, last_date>>
  /\ UNCHANGED <<runs, clos, sidecars, planes, meta_dict, h5file, h5>>
  /\ UNCHANGED <<envVars, codecVars, footprintVars, prmVars>>

\* mission2sc_id
mission2sc_id ==
  [x \in {"1", "2", "3", "4", "5", "6", "7", "8", "9"} |->
     CASE x \in {"1", "2"} -> "ERS"
       [] x = "3" -> "RS1"
       [] x = "4" -> "ENV1"
       [] x = "5" -> "ALOS"
       [] x = "6" -> ""
       [] x = "7" -> "TSX"
       [] x = "8" -> "CSK"
       [] OTHER -> "RS2"]

\* meta_dict['mission']
gmtsar_mission(c, prm) ==
  IF TruthyStr(c.mission) THEN c.mission[1] ELSE mission2sc_id[prm["SC_identity"]]

\* meta_dict['flight_direction']
gmtsar_flight_direction(c, prm) ==
  IF "orbdir" \in DOMAIN prm THEN prm["orbdir"] ELSE c.flight_direction[1]

\* clos.master_platform / clos.slave_platform after the check 'if not ...'
gmtsar_platform(given, mission) == IF TruthyStr(given) THEN given[1] ELSE mission

\* meta_dict as lines 94 to 155 leave it
gmtsar_meta(c, prm_master, prm_slave, first, last) ==
  LET mission == gmtsar_mission(c, prm_master)
      m1 == [mission |-> mission,
             beam_swath |-> c.beam_swath,
             relative_orbit |-> c.relative_orbit[1],
             first_date |-> strftime_Ymd(strptime_Yj(prm_master["SC_clock_start"])),
             last_date |-> strftime_Ymd(strptime_Yj(prm_slave["SC_clock_start"])),
             scene_footprint |-> c.scene_footprint[1],
             processing_type |-> c.processing_type[1]]
      m2 == PutIf(TruthyStr(c.beam_mode), m1, "beam_mode", c.beam_mode[1])
      m3 == PutIf(TruthyInt(c.frame), m2, "frame", c.frame[1])
      m4 == PutIf(TruthyStr(c.polarization), m3, "polarization", c.polarization[1])
      m5 == Update(m4,
              [flight_direction |-> gmtsar_flight_direction(c, prm_master),
               look_direction |-> c.look_direction[1],
               prf |-> prm_master["PRF"],
               wavelength |-> prm_master["radar_wavelength"],
               processing_facility |-> c.processing_facility[1],
               processing_software |-> c.processing_software[1],
               processing_software_version |-> c.processing_software_version[1]])
      m6 == PutIf(TruthyStr(c.processing_atmos_correct_method), m5,
                  "processing_atmos_correct_method",
                  c.processing_atmos_correct_method[1])
      m7 == Update(m6,
              [processing_dem |-> "SRTM1",
               history |-> "H5 file created",
               description |-> <<c.processing_software[1],
                                 c.processing_software_version[1],
                                 c.processing_facility[1]>>,
               master_platform |-> gmtsar_platform(c.master_platform, mission)])
      m8 == PutIf(TruthyInt(c.master_absolute_orbit), m7,
                  "master_absolute_orbit", c.master_absolute_orbit[1])
      m9 == Update(m8,
              [master_doppler |-> prm_master["fd1"],
               slave_platform |-> gmtsar_platform(c.slave_platform, mission)])
      m10 == PutIf(TruthyInt(c.slave_absolute_orbit), m9,
                   "slave_absolute_orbit", c.slave_absolute_orbit[1])
  IN  Update(m10,
        [slave_doppler |-> prm_slave["fd1"],
         baseline_perp |-> prm_slave["baseline_center"],
         temporal_baseline |-> temporal_baseline(first, last)])

\* lines 94 to 155: meta_dict = {} ... meta_dict['temporal_baseline']
GmtsarResolve ==
  /\ At("gmtsar", "resolve")
  /\ IF /\ {"SC_clock_start", "PRF", "radar_wavelength", "fd1"}
             \subseteq DOMAIN master
        /\ {"SC_clock_start", "fd1", "baseline_center"} \subseteq DOMAIN slave
        /\ (TruthyStr(clos.mission)
              \/ ("SC_identity" \in DOMAIN master
                    /\ master["SC_identity"] \in DOMAIN mission2sc_id))
     THEN /\ meta_dict' = gmtsar_meta(clos, master, slave, first_date, last_date)
          /\ Goto("open")
          /\ UNCHANGED f_open
     ELSE /\ Fail("KeyError")
          /\ UNCHANGED meta_dict
  /\ UNCHANGED <<runs, clos, master, slave, sidecars, first_date, last_date, planes,
                 h5file, h5>>
  /\ UNCHANGED <<envVars, codecVars, footprintVars, prmVars>>

(***************************************************************************)
(* roipac2hdf5.py                                                          *)
(***************************************************************************)
\* -rsc1, -rsc2 and -swath are required
RoipacRequired == {"rsc1", "rsc2", "beam_swath"}

RoipacArgvs ==
  {[rsc1 |-> "m.slc.rsc", rsc2 |-> "s.slc.rsc", beam_swath |-> "F1"],
   [rsc1 |-> "m.slc.rsc", rsc2 |-> "s.slc.rsc"]}

\* parse(): the defaults of add_argument
roipac_parse(args) ==
  [rsc1 |-> Arg(args, "rsc1", None),
   rsc2 |-> Arg(args, "rsc2", None),
   processing_type |-> Arg(args, "processing_type", Some("INTERFEROGRAM")),
   beam_swath |-> Arg(args, "beam_swath", None),
   beam_mode |-> Arg(args, "beam_mode", None),
   frame |-> Arg(args, "frame", None),
   processing_software |-> Arg(args, "processing_software", Some("ROI_PAC")),
   processing_software_version |-> Arg(args, "processing_software_version", Some("3.1")),
   processing_atmos_correct_method |-> Arg(args, "processing_atmos_correct_method", None),
   processing_facility |-> Arg(args, "processing_facility", Some("UNAVCO"))]

\* the SLC .rsc files as read_rsc_file returns them (numbers stand for the
\* strings int() and float() convert)
RoipacRscMasters ==
  {[DATE |-> day, PLATFORM |-> "ERS2", TRACK |-> 7, FIRST_FRAME |-> 2907,
    ORBIT_DIRECTION |-> "descending", ANTENNA_SIDE |-> -1,
    POLARIZATION |-> "VV", PRF |-> 1679, ORBIT_NUMBER |-> 100,
    DOPPLER_RANGE0 |-> "d0", DOPPLER_RANGE1 |-> "d1",
    DOPPLER_RANGE2 |-> "d2", DOPPLER_RANGE3 |-> "d3"] : day \in 0..MaxDay}

RoipacRscSlaves ==
  {[DATE |-> day, PLATFORM |-> "ERS2", ORBIT_NUMBER |-> 101,
    DOPPLER_RANGE0 |-> "e0", DOPPLER_RANGE1 |-> "e1",
    DOPPLER_RANGE2 |-> "e2", DOPPLER_RANGE3 |-> "e3"] : day \in 0..MaxDay}
  \cup {[PLATFORM |-> "ERS2", ORBIT_NUMBER |-> 101]}

\* <first>_<last>_baseline.rsc
RoipacRscBaseline ==
  [P_BASELINE_TOP_HDR |-> 120, P_BASELINE_BOTTOM_HDR |-> 124,
   H_BASELINE_TOP_HDR |-> 30]

\* the .rsc of a raster of dimensions d
RasterRsc(d) == [WIDTH |-> d[2], FILE_LENGTH |-> d[1]]

\* geo_*.int.rsc: the dimensions, the four corners LAT_REFn / LON_REFn, and
\* with or without a baseline key that the baseline .rsc holds too
RoipacCorners ==
  [LAT_REF1 |-> 11, LON_REF1 |-> 21, LAT_REF2 |-> 12, LON_REF2 |-> 22,
   LAT_REF3 |-> 13, LON_REF3 |-> 23, LAT_REF4 |-> 14, LON_REF4 |-> 24]

RoipacRasters == {"unw", "int", "cor", "inc", "dem"}

\* the samples of a raw file whose .rsc says dimensions d
RawSamples(name, d) ==
  CASE name = "int" -> Flatten([i \in 1..d[1] |-> [j \in 1..d[2] |-> <<0 - 1, 0>>]])
    [] name = "dem" -> Flatten(Ramp(d, 50))
    [] name = "cor" -> Interleave(Ramp(d, 30), Ramp(d, 0))
    [] OTHER -> Interleave(Ramp(d, 10), Ramp(d, 20))

PadSample(name) == IF name = "int" THEN <<0, 0>> ELSE 0

\* the raster files and their .rsc: all of dimensions d and whole, but for
\* the file odd, whose .rsc says dimensions dodd and which is skew samples
\* longer than that
RasterSet(names, d, odd, dodd, skew) ==
  [n \in names |->
     IF n = odd
     THEN [dims |-> dodd, raw |-> Skewed(RawSamples(n, dodd), skew, PadSample(n))]
     ELSE [dims |-> d, raw |-> RawSamples(n, d)]]

\* the input files: any SLC .rsc files with rasters of one size, or any
\* rasters with the same SLC .rsc files
RoipacDisks ==
  {[rsc_master |-> rm, rsc_slave |-> rs, rsc_baseline |-> RoipacRscBaseline,
    rasters |-> RasterSet(RoipacRasters, <<1, 1>>, "unw", <<1, 1>>, 0),
    wraprsc |-> w] :
     rm \in RoipacRscMasters, rs \in RoipacRscSlaves,
     w \in {Update(Update(RasterRsc(<<1, 1>>), RoipacCorners), o) :
              o \in OptArg("P_BASELINE_TOP_HDR", {999})}}
  \cup
  {[rsc_master |-> rm, rsc_slave |-> rs, rsc_baseline |-> RoipacRscBaseline,
    rasters |-> r, wraprsc |-> Update(RasterRsc(r["int"].dims), RoipacCorners)] :
     rm \in {x \in RoipacRscMasters : x["DATE"] = 0},
     rs \in {x \in RoipacRscSlaves : "DATE" \in DOMAIN x /\ x["DATE"] = MaxDay},
     r \in {RasterSet(RoipacRasters, d, odd, dodd, skew) :
              d \in PDims, odd \in RoipacRasters, dodd \in PDims,
              skew \in {-1, 0, 1}}}

\* clos = parse()
RoipacParse ==
  /\ At("roipac", "start")
  /\ IF RoipacRequired \subseteq DOMAIN argv
     THEN /\ clos' = roipac_parse(argv)
          /\ Goto("sidecars")
          /\ UNCHANGED f_open
     ELSE /\ UsageError
          /\ UNCHANGED clos
  /\ UNCHANGED <<runs, master, slave, sidecars, first_date, last_date, planes,
                 meta_dict, h5file, h5>>
  /\ UNCHANGED <<envVars, codecVars, footprintVars, prmVars>>

\* lines 128 to 132: the SLC .rsc files, the dates, the baseline .rsc
RoipacReadRsc ==
  /\ At("roipac", "sidecars")
  /\ master' = disk.rsc_master
  /\ slave' = disk.rsc_slave
  /\ IF "DATE" \in DOMAIN disk.rsc_master /\ "DATE" \in DOMAIN disk.rsc_slave
     THEN /\ first_date' = strptime_ymd(disk.rsc_master["DATE"])
          /\ last_date' = strptime_ymd(disk.rsc_slave["DATE"])
          /\ sidecars' = [rsc_baseline |-> disk.rsc_baseline]
          /\ Goto("decode")
          /\ UNCHANGED f_open
     ELSE /\ Fail("KeyError")
          /\ UNCHANGED <<first_date, last_date, sidecars>>
  /\ UNCHANGED <<runs, clos, planes, meta_dict, h5file, h5>>
  /\ UNCHANGED <<envVars, codecVars, footprintVars, prmVars>>

\* read_dem: np.fromfile(demfile, dtype=np.int16).reshape(length, width)
read_dem(file, length, width) ==
  IF ~reshape_ok(file, length, width)
  THEN Raised("ValueError")
  ELSE Returned(reshape(file, length, width), <<>>)

\* roipac2hdf5's readers take the dimensions from the raster's own .rsc
roipac_read(kind, raster) ==
  CASE kind = "float32" -> read_float32(raster.raw, raster.dims[1], raster.dims[2])
    [] kind = "complex64" -> read_complex64(raster.raw, raster.dims[1], raster.dims[2])
    [] OTHER -> read_dem(raster.raw, raster.dims[1], raster.dims[2])

\* lines 138 to 142: the five rasters, each with its own .rsc; the first
\* reader that raises ends the run
RoipacDecode ==
  /\ At("roipac", "decode")
  /\ LET unw == roipac_read("float32", disk.rasters["unw"])
         int == roipac_read("complex64", disk.rasters["int"])
         cor == roipac_read("float32", disk.rasters["cor"])
         inc == roipac_read("float32", disk.rasters["inc"])
         dem == roipac_read("int16", disk.rasters["dem"])
     IN  IF \E r \in {unw, int, cor, inc, dem} : r.err # "none"
         THEN /\ Fail("ValueError")
              /\ UNCHANGED <<planes, sidecars>>
         ELSE /\ planes' = [unwrapped_interferogram |-> unw.p,
                            wrapped_interferogram |-> int.p,
                            correlation |-> cor.p,
                            incidence_angle |-> inc.a,
                            digital_elevation_model |-> dem.a]
              /\ sidecars' = Put(sidecars, "wraprsc", disk.wraprsc)
              /\ Goto("resolve")
              /\ UNCHANGED f_open
  /\ UNCHANGED <<runs, clos, master, slave, first_date, last_date, meta_dict,
                 h5file, h5>>
  /\ UNCHANGED <<envVars, codecVars, footprintVars, prmVars>>

\* zip(lats, lons) formatted lon+' '+lat and joined: the vertices of the WKT
\* polygon, each <<lon, lat>>
wkt_polygon(lats, lons) ==
  [k \in 1..Min(Len(lats), Len(lons)) |-> <<lons[k], lats[k]>>]

\* a slip: the ring is not closed (the first corner is not repeated)
roipac_corner_order_open == <<1, 3, 4, 2>>

\* the corners LAT_REFn / LON_REFn in the order lines 145 and 146 list them
roipac_corner_order == <<1, 3, 4, 2, 1>>

LatRef == <<"LAT_REF1", "LAT_REF2", "LAT_REF3", "LAT_REF4">>

LonRef == <<"LON_REF1", "LON_REF2", "LON_REF3", "LON_REF4">>

\* lines 145, 146 and 156: meta_dict['scene_footprint']
roipac_footprint(wraprsc) ==
  wkt_polygon([k \in 1..Len(roipac_corner_order) |-> wraprsc[LatRef[roipac_corner_order[k]]]],
              [k \in 1..Len(roipac_corner_order) |-> wraprsc[LonRef[roipac_corner_order[k]]]])

\* np.mean and np.nanmax of an array of numbers (the mean rounded down)
RECURSIVE SeqSum(_)
SeqSum(q) == IF q = <<>> THEN 0 ELSE Head(q) + SeqSum(Tail(q))

RECURSIVE SeqMax(_)
SeqMax(q) == IF Len(q) = 1 THEN q[1] ELSE Max(Head(q), SeqMax(Tail(q)))

np_mean(array) == SeqSum(Flatten(array)) \div Len(Flatten(array))

np_nanmax(array) == SeqMax(Flatten(array))

\* meta_dict as lines 151 to 198 leave it
roipac_meta(c, rsc_master, rsc_slave, rsc_baseline, wraprsc, cor, first, last) ==
  LET m1 == [mission |-> rsc_master["PLATFORM"],
             beam_swath |-> c.beam_swath,
             relative_orbit |-> rsc_master["TRACK"],
             scene_footprint |-> roipac_footprint(wraprsc),
             first_date |-> strftime_Ymd(first),
             last_date |-> strftime_Ymd(last),
             processing_type |-> c.processing_type[1]]
      m2 == PutIf(TruthyStr(c.beam_mode), m1, "beam_mode", c.beam_mode[1])
      m3 == Update(m2,
              [frame |-> rsc_master["FIRST_FRAME"],
               flight_direction |-> rsc_master["ORBIT_DIRECTION"],
               look_direction |-> IF rsc_master["ANTENNA_SIDE"] = -1 THEN "R" ELSE "L",
               polarization |-> rsc_master["POLARIZATION"],
               prf |-> rsc_master["PRF"],
               master_platform |-> rsc_master["PLATFORM"],
               master_absolute_orbit |-> rsc_master["ORBIT_NUMBER"],
               master_doppler |-> <<rsc_master["DOPPLER_RANGE0"], rsc_master["DOPPLER_RANGE1"],
                                    rsc_master["DOPPLER_RANGE2"], rsc_master["DOPPLER_RANGE3"]>>,
               slave_platform |-> rsc_slave["PLATFORM"],
               slave_absolute_orbit |-> rsc_slave["ORBIT_NUMBER"],
               slave_doppler |-> <<rsc_slave["DOPPLER_RANGE0"], rsc_slave["DOPPLER_RANGE1"],
                                   rsc_slave["DOPPLER_RANGE2"], rsc_slave["DOPPLER_RANGE3"]>>,
               processing_facility |-> c.processing_facility[1],
               processing_software |-> c.processing_software[1],
               processing_software_version |-> c.processing_software_version[1]])
      m4 == PutIf(TruthyStr(c.processing_atmos_correct_method), m3,
                  "processing_atmos_correct_method",
                  c.processing_atmos_correct_method[1])
      m5 == Update(m4,
              [processing_dem |-> "SRTM",
               history |-> "H5 file created",
               average_coherence |-> np_mean(cor),
               max_coherence |-> np_nanmax(cor),
               baseline_perp |-> (rsc_baseline["P_BASELINE_TOP_HDR"]
                                    + rsc_baseline["P_BASELINE_BOTTOM_HDR"]) \div 2,
               temporal_baseline |-> temporal_baseline(first, last)])
  IN  Update(Update(m5, wraprsc), rsc_baseline)

\* lines 145 to 198
RoipacResolve ==
  /\ At("roipac", "resolve")
  /\ IF /\ {"PLATFORM", "TRACK", "FIRST_FRAME", "ORBIT_DIRECTION",
            "ANTENNA_SIDE", "POLARIZATION", "PRF", "ORBIT_NUMBER",
            "DOPPLER_RANGE0", "DOPPLER_RANGE1", "DOPPLER_RANGE2",
            "DOPPLER_RANGE3"} \subseteq DOMAIN master
        /\ {"PLATFORM", "ORBIT_NUMBER", "DOPPLER_RANGE0", "DOPPLER_RANGE1",
            "DOPPLER_RANGE2", "DOPPLER_RANGE3"} \subseteq DOMAIN slave
        /\ {LatRef[k] : k \in 1..4} \cup {LonRef[k] : k \in 1..4}
             \subseteq DOMAIN sidecars["wraprsc"]
        /\ {"P_BASELINE_TOP_HDR", "P_BASELINE_BOTTOM_HDR"}
             \subseteq DOMAIN sidecars["rsc_baseline"]
     THEN /\ meta_dict' = roipac_meta(clos, master, slave, sidecars["rsc_baseline"],
                                      sidecars["wraprsc"], planes["correlation"],
                                      first_date, last_date)
          /\ Goto("open")
          /\ UNCHANGED f_open
     ELSE /\ Fail("KeyError")
          /\ UNCHANGED meta_dict
  /\ UNCHANGED <<runs, clos, master, slave, sidecars, first_date, last_date,
                 planes, h5file, h5>>
  /\ UNCHANGED <<envVars, codecVars, footprintVars, prmVars>>

\* the corners of the raster: north = y_first, south = north + length*y_step,
\* west = x_first, east = west + width*x_step
bounding_box(geo, length, width) ==
  [north |-> geo.y_first,
   west |-> geo.x_first,
   south |-> geo.y_first + length * geo.y_step,
   east |-> geo.x_first + width * geo.x_step]

(***************************************************************************)
(* isce2hdf5.py                                                            *)
(***************************************************************************)
IsceArgvs == OptArg("beam_swath", {"F1"})

\* parse(): the defaults of add_argument
isce_parse(args) ==
  [processing_type |-> Arg(args, "processing_type", Some("INTERFEROGRAM")),
   beam_swath |-> Arg(args, "beam_swath", None),
   beam_mode |-> Arg(args, "beam_mode", None),
   frame |-> Arg(args, "frame", None),
   processing_software |-> Arg(args, "processing_software", Some("ISCE")),
   processing_software_version |-> Arg(args, "processing_software_version", Some("2.0.0")),
   processing_atmos_correct_method |-> Arg(args, "processing_atmos_correct_method", None),
   processing_facility |-> Arg(args, "processing_facility", Some(""))]

\* filt_topophase.flat.geo.xml as PA.parse returns it in dictOut
IsceXml(d) ==
  [width |-> d[2], length |-> d[1],
   Coordinate1 |-> [delta |-> 2, startingvalue |-> 100],
   Coordinate2 |-> [delta |-> -3, startingvalue |-> 200]]

strip_bytes_repr(text) ==
  CASE text = "b'CSKS4'" -> "CSKS4"
    [] text = "b'CSKS1'" -> "CSKS1"
    [] OTHER -> text

\* 'CSK' in mission, and mission[:3], for the missions above
contains_CSK(mission) == mission \in {"CSKS4", "CSKS1", "CSK"}

first3(mission) ==
  CASE mission \in {"CSKS4", "CSKS1"} -> "CSK"
    [] mission = "ALOS" -> "ALO"
    [] OTHER -> mission

\* insarProc.xml: the texts root.find() returns (numbers stand for the
\* texts int() and float() convert)
IsceProcs ==
  {[master |-> [SENSING_START |-> <<d1, t1>>, SENSING_STOP |-> <<d1, t1>>,
                MISSION |-> m, TRACK_NUMBER |-> tr, ORBIT_NUMBER |-> 500,
                PASS_DIRECTION |-> "ASCENDING", POLARIZATION |-> "HH",
                lookSide |-> -1, wavelength |-> 236, prf |-> 1600],
    slave |-> [SENSING_START |-> <<d2, t2>>, SENSING_STOP |-> <<d2, t2>>,
               MISSION |-> m, ORBIT_NUMBER |-> 600],
    perp_baseline_top |-> 120] :
     d1 \in 0..MaxDay, t1 \in 0..(TicksPerDay - 1),
     d2 \in 0..MaxDay, t2 \in 0..(TicksPerDay - 1),
     m \in {"ALOS", "b'CSKS4'", "b'CSKS1'"}, tr \in {"None", "7"}}

\* isce.log: a line is a corner line of FrameInfoExtractor or not, and has a
\* text after its last ':'
LogLine(corner, field) == [corner |-> corner, field |-> field]

\* a log of n corners, each a corner line holding the latitude and the line
\* after it holding the longitude, and after them a corner line that is the
\* last line of the log when tail holds
RECURSIVE CornerLines(_)
CornerLines(n) ==
  IF n = 0 THEN <<LogLine(FALSE, 0)>>
  ELSE CornerLines(n - 1) \o <<LogLine(TRUE, 10 + n), LogLine(FALSE, 20 + n)>>

CornerLog(n, tail) ==
  CornerLines(n) \o (IF tail THEN <<LogLine(TRUE, 99)>> ELSE <<>>)

\* the logs have up to MaxCorners corners
MaxCorners == 5

IsceLogs == {CornerLog(n, tail) : n \in 3..MaxCorners, tail \in BOOLEAN}

IsceRasters == {"int", "unw", "rdr", "phsig"}

\* the samples of ISCE's raw files: phsig.cor.geo is one plane
IsceRawSamples(name, d) ==
  IF name = "phsig" THEN Flatten(Ramp(d, 0)) ELSE RawSamples(name, d)

\* rasters written for the dimensions d, but for one written for dodd and
\* skew samples longer
IsceRasterSets(d) ==
  {[n \in IsceRasters |->
      IF n = odd
      THEN Skewed(IsceRawSamples(n, dodd), skew, PadSample(n))
      ELSE IsceRawSamples(n, d)] :
     odd \in IsceRasters, dodd \in PDims, skew \in {-1, 0, 1}}

\* the input files: any insarProc.xml with whole rasters and a log of four
\* corners, or any rasters and logs with one insarProc.xml
IsceDisks ==
  {[xml |-> IsceXml(<<1, 1>>), proc |-> pr, log |-> CornerLog(4, FALSE),
    rasters |-> [n \in IsceRasters |-> IsceRawSamples(n, <<1, 1>>)]] :
     pr \in IsceProcs}
  \cup
  UNION {{[xml |-> IsceXml(d), proc |-> pr, log |-> lg, rasters |-> r] :
            pr \in {x \in IsceProcs :
                      /\ x.master.SENSING_START = <<0, 0>>
                      /\ x.slave.SENSING_START = <<MaxDay, 0>>
                      /\ x.master.MISSION = "ALOS"
                      /\ x.master.TRACK_NUMBER = "7"},
            lg \in IsceLogs,
            r \in IsceRasterSets(d)} :
         d \in PDims}

\* clos = parse(): no option is required
IsceParse ==
  /\ At("isce", "start")
  /\ clos' = isce_parse(argv)
  /\ Goto("sidecars")
  /\ UNCHANGED <<runs, master, slave, sidecars, first_date, last_date, planes,
                 meta_dict, h5file, f_open, h5>>
  /\ UNCHANGED <<envVars, codecVars, footprintVars, prmVars>>

\* lines 160 to 169: dictOut of the raster's .xml
IsceReadXml ==
  /\ At("isce", "sidecars")
  /\ sidecars' = [dictOut |-> disk.xml]
  /\ Goto("decode")
  /\ UNCHANGED <<runs, clos, master, slave, first_date, last_date, planes,
                 meta_dict, h5file, f_open, h5>>
  /\ UNCHANGED <<envVars, codecVars, footprintVars, prmVars>>

\* np.fromfile(cor_file, dtype=np.float32).reshape(length, width)
read_cor(file, length, width) ==
  IF ~reshape_ok(file, length, width)
  THEN Raised("ValueError")
  ELSE Returned(<<>>, reshape(file, length, width))

\* lines 171 to 174: the four rasters, all with the .xml's length and width
IsceDecode ==
  /\ At("isce", "decode")
  /\ LET length == sidecars["dictOut"].length
         width == sidecars["dictOut"].width
         int == read_complex64(disk.rasters["int"], length, width)
         unw == read_float32(disk.rasters["unw"], length, width)
         rdr == read_float32(disk.rasters["rdr"], length, width)
         cor == read_cor(disk.rasters["phsig"], length, width)
     IN  IF \E r \in {int, unw, rdr, cor} : r.err # "none"
         THEN /\ Fail("ValueError")
              /\ UNCHANGED planes
         ELSE /\ planes' = [unwrapped_interferogram |-> unw.p,
                            wrapped_interferogram |-> int.p,
                            correlation |-> cor.p,
                            incidence_angle |-> rdr.p]
              /\ Goto("resolve")
              /\ UNCHANGED f_open
  /\ UNCHANGED <<runs, clos, master, slave, sidecars, first_date, last_date,
                 meta_dict, h5file, h5>>
  /\ UNCHANGED <<envVars, codecVars, footprintVars, prmVars>>

\* the numbers of the corner lines of the log, ascending
corner_lines(log) ==
  SelectSeq([i \in 1..Len(log) |-> i], LAMBDA i : log[i].corner)

\* the corners of the log in the order lines 112 and 113 list them
log_corner_order == <<1, 2, 4, 3, 1>>

\* footprintFromLogFile(): every corner line gives a latitude and the line
\* after it a longitude; IndexError when a corner line is the last line of
\* the log or the log has fewer than four corner lines
footprintFromLogFile(log) ==
  LET at == corner_lines(log)
  IN  IF (\E k \in 1..Len(at) : at[k] = Len(log)) \/ Len(at) < 4
      THEN [err |-> "IndexError", wkt |-> <<>>]
      ELSE LET lats == [k \in 1..Len(at) |-> log[at[k]].field]
               lons == [k \in 1..Len(at) |-> log[at[k] + 1].field]
           IN  [err |-> "none",
                wkt |-> wkt_polygon(
                          [k \in 1..Len(log_corner_order) |-> lats[log_corner_order[k]]],
                          [k \in 1..Len(log_corner_order) |-> lons[log_corner_order[k]]])]

\* footprintFromPickle(): the corners nearEarly, farEarly, nearLate, farLate
\* as geolocate returns them, each <<latitude, longitude>>, formatted
\* longitude first in the order nearEarly, farEarly, farLate, nearLate,
\* nearEarly
footprintFromPickle(nearEarly, farEarly, nearLate, farLate) ==
  <<<<nearEarly[2], nearEarly[1]>>, <<farEarly[2], farEarly[1]>>,
    <<farLate[2], farLate[1]>>, <<nearLate[2], nearLate[1]>>,
    <<nearEarly[2], nearEarly[1]>>>>

\* lines 188 to 196: relative_orbit and mission
isce_orbit(meta, track, orbit) ==
  IF track = "None"
  THEN IF contains_CSK(meta["mission"])
       THEN Put(Put(meta, "relative_orbit",
                    IF meta["mission"] = "CSKS4"
                    THEN (orbit - 193) % 237 ELSE orbit % 237),
                "mission", first3(meta["mission"]))
       ELSE meta
  ELSE Put(meta, "relative_orbit", 7)

\* meta_dict as lines 184 to 251 leave it
isce_meta(c, proc, xml, wkt, cor, first, last) ==
  LET m1 == isce_orbit([mission |-> strip_bytes_repr(proc.master.MISSION),
                        beam_swath |-> c.beam_swath],
                       proc.master.TRACK_NUMBER, proc.master.ORBIT_NUMBER)
      m2 == Update(m1,
              [first_date |-> strftime_Ymd(first),
               last_date |-> strftime_Ymd(last),
               processing_type |-> c.processing_type[1],
               scene_footprint |-> wkt])
      m3 == PutIf(TruthyStr(c.beam_mode), m2, "beam_mode", c.beam_mode[1])
      m4 == Update(m3,
              [frame |-> 0,
               flight_direction |-> proc.master.PASS_DIRECTION,
               look_direction |-> IF proc.master.lookSide = -1 THEN "R" ELSE "L",
               wavelength |-> proc.master.wavelength,
               polarization |-> proc.master.POLARIZATION,
               prf |-> proc.master.prf,
               master_platform |-> strip_bytes_repr(proc.master.MISSION),
               master_absolute_orbit |-> proc.master.ORBIT_NUMBER,
               master_sensing_start |-> proc.master.SENSING_START,
               master_sensing_stop |-> proc.master.SENSING_STOP,
               slave_platform |-> strip_bytes_repr(proc.slave.MISSION),
               slave_absolute_orbit |-> proc.slave.ORBIT_NUMBER,
               slave_sensing_start |-> proc.slave.SENSING_START,
               slave_sensing_stop |-> proc.slave.SENSING_STOP,
               width |-> xml.width,
               length |-> xml.length,
               xstep |-> xml.Coordinate1.delta,
               ystep |-> xml.Coordinate2.delta,
               ellipsoid |-> "WGS84",
               incidence_angle |-> "",
               producer_names |-> "",
               processing_facility |-> c.processing_facility[1],
               processing_software |-> c.processing_software[1],
               processing_software_version |-> c.processing_software_version[1]])
      m5 == Update(m4,
              bounding_box([x_first |-> xml.Coordinate1.startingvalue,
                            x_step |-> xml.Coordinate1.delta,
                            y_first |-> xml.Coordinate2.startingvalue,
                            y_step |-> xml.Coordinate2.delta],
                           xml.length, xml.width))
      m6 == PutIf(TruthyStr(c.processing_atmos_correct_method), m5,
                  "processing_atmos_correct_method",
                  c.processing_atmos_correct_method[1])
  IN  Update(m6,
        [processing_dem |-> "SRTM1",
         history |-> "H5 file created",
         average_coherence |-> np_mean(cor),
         max_coherence |-> np_nanmax(cor),
         baseline_perp |-> proc.perp_baseline_top,
         temporal_baseline |-> temporal_baseline(first, last)])

\* lines 180 to 251: insarProc.xml, the dates, the footprint from the log,
\* meta_dict
IsceResolve ==
  /\ At("isce", "resolve")
  /\ master' = disk.proc.master
  /\ slave' = disk.proc.slave
  /\ first_date' = strptime_full(disk.proc.master.SENSING_START)
  /\ last_date' = strptime_full(disk.proc.slave.SENSING_START)
  /\ LET fp == footprintFromLogFile(disk.log)
     IN  IF fp.err # "none"
         THEN /\ Fail(fp.err)
              /\ UNCHANGED meta_dict
         ELSE /\ meta_dict' = isce_meta(clos, disk.proc, sidecars["dictOut"], fp.wkt,
                                        planes["correlation"], first_date', last_date')
              /\ Goto("open")
              /\ UNCHANGED f_open
  /\ UNCHANGED <<runs, clos, sidecars, planes, h5file, h5>>
  /\ UNCHANGED <<envVars, codecVars, footprintVars, prmVars>>

(***************************************************************************)
(* gmtsar2hdf5.py read_prm.  A line is the sequence of its characters.     *)
(***************************************************************************)
\* a line has at most MaxLineLen characters before its newline
MaxLineLen == 3

\* the characters of a line: a letter, a blank, the delimiter, the sign
\* that starts a comment; every line ends with a newline
RECURSIVE Strings(_)
Strings(n) ==
  IF n = 0 THEN {<<>>}
  ELSE Strings(n - 1) \cup {Append(t, c) : t \in Strings(n - 1), c \in {"k", " ", "=", "#"}}

PrmLines == {Append(t, "\n") : t \in Strings(MaxLineLen)}

\* files of one line and of two lines
PrmFiles == {<<a>> : a \in PrmLines} \cup {<<a, b>> : a \in PrmLines, b \in PrmLines}

\* the place of the first sep in text, 0 when there is none
find(text, sep) ==
  IF \E i \in 1..Len(text) : text[i] = sep
  THEN CHOOSE i \in 1..Len(text) :
         text[i] = sep /\ \A j \in 1..(i - 1) : text[j] # sep
  ELSE 0

\* text.split(sep): the pieces between all occurrences of sep
RECURSIVE split(_, _)
split(text, sep) ==
  IF find(text, sep) = 0 THEN <<text>>
  ELSE <<SubSeq(text, 1, find(text, sep) - 1)>>
         \o split(SubSeq(text, find(text, sep) + 1, Len(text)), sep)

Whitespace == {" ", "\n"}

RECURSIVE lstrip(_)
lstrip(text) ==
  IF text # <<>> /\ Head(text) \in Whitespace THEN lstrip(Tail(text)) ELSE text

RECURSIVE rstrip(_)
rstrip(text) ==
  IF text # <<>> /\ text[Len(text)] \in Whitespace
  THEN rstrip(SubSeq(text, 1, Len(text) - 1))
  ELSE text

\* text.strip()
strip(text) == rstrip(lstrip(text))

\* str.replace(text, '\n', '')
replace_newline(text) == SelectSeq(text, LAMBDA c : c # "\n")

PrmIdle ==
  /\ p_file = <<>>
  /\ p_i = 0
  /\ p_dict = EmptyDict
  /\ p_state = "idle"
  /\ p_open = FALSE

\* line 42: open(prm_file), the file object the for loop iterates
ReadPrmOpen ==
  /\ p_state = "called"
  /\ p_state' = "reading"
  /\ p_open' = TRUE
  /\ UNCHANGED <<p_file, p_i, p_dict>>
  /\ UNCHANGED <<envVars, runVars, codecVars, footprintVars>>

\* lines 43 and 44: c = line.split("="); prm_dict[c[0].strip()] = ...c[1]...;
\* c[1] raises IndexError when the line has no '='; nothing closes the file
\* object, which the frame of the raised exception still holds
ReadPrmLine ==
  /\ p_state = "reading"
  /\ p_i < Len(p_file)
  /\ LET c == split(p_file[p_i + 1], "=")
     IN  IF Len(c) < 2
         THEN /\ p_state' = "IndexError"
              /\ UNCHANGED <<p_i, p_dict>>
         ELSE /\ p_dict' = Put(p_dict, strip(c[1]), strip(replace_newline(c[2])))
              /\ p_i' = p_i + 1
              /\ UNCHANGED p_state
  /\ UNCHANGED <<p_file, p_open>>
  /\ UNCHANGED <<envVars, runVars, codecVars, footprintVars>>

\* line 45: return prm_dict.  The file object is never closed by the
\* function: it is closed when the interpreter finalises it, at once with
\* reference counting, at some later time with another collector
ReadPrmReturn ==
  /\ p_state = "reading"
  /\ p_i = Len(p_file)
  /\ p_state' = "returned"
  /\ p_open' \in BOOLEAN
  /\ UNCHANGED <<p_file, p_i, p_dict>>
  /\ UNCHANGED <<envVars, runVars, codecVars, footprintVars>>

(***************************************************************************)
(* The footprint functions called on four corners.                         *)
(***************************************************************************)
\* latitudes and longitudes are 0..MaxCoord
MaxCoord == 1

FootprintIdle ==
  /\ fp_corners = <<>>
  /\ fp_path = "none"
  /\ fp_out = <<>>

\* roipac2hdf5 lines 145, 146, 156
FootprintFromRsc ==
  /\ fp_path = "none"
  /\ fp_path' = "rsc"
  /\ LET c == fp_corners
         \* the .int.rsc of a scene with these corners
         rsc == [LAT_REF1 |-> c[1][1], LON_REF1 |-> c[1][2],
                 LAT_REF2 |-> c[2][1], LON_REF2 |-> c[2][2],
                 LAT_REF3 |-> c[3][1], LON_REF3 |-> c[3][2],
                 LAT_REF4 |-> c[4][1], LON_REF4 |-> c[4][2]]
     IN  fp_out' = roipac_footprint(rsc)
  /\ UNCHANGED fp_corners
  /\ UNCHANGED <<envVars, runVars, codecVars, prmVars>>

\* isce2hdf5 footprintFromLogFile
FootprintFromLog ==
  /\ fp_path = "none"
  /\ fp_path' = "log"
  /\ LET c == fp_corners
         \* the isce.log of a scene with these corners
         log == <<LogLine(FALSE, 0),
                  LogLine(TRUE, c[1][1]), LogLine(FALSE, c[1][2]),
                  LogLine(TRUE, c[2][1]), LogLine(FALSE, c[2][2]),
                  LogLine(TRUE, c[3][1]), LogLine(FALSE, c[3][2]),
                  LogLine(TRUE, c[4][1]), LogLine(FALSE, c[4][2])>>
     IN  fp_out' = footprintFromLogFile(log).wkt
  /\ UNCHANGED fp_corners
  /\ UNCHANGED <<envVars, runVars, codecVars, prmVars>>

\* isce2hdf5 footprintFromPickle
FootprintFromPickle ==
  /\ fp_path = "none"
  /\ fp_path' = "pickle"
  /\ fp_out' = footprintFromPickle(fp_corners[1], fp_corners[2],
                                   fp_corners[3], fp_corners[4])
  /\ UNCHANGED fp_corners
  /\ UNCHANGED <<envVars, runVars, codecVars, prmVars>>

(***************************************************************************)
(* gdal2roipac.py                                                          *)
(***************************************************************************)
\* sys.argv[1:]: no argument, IN_FILE, or IN_FILE and OUT_FILE
Gdal2RoipacArgvs ==
  {EmptyDict, [IN_FILE |-> "dem.tif"], [IN_FILE |-> "dem.tif", OUT_FILE |-> "roipac.dem"]}

\* the input raster, or no file of that name
Gdal2RoipacDisks == {EmptyDict} \cup {[tif |-> Ramp(d, 50)] : d \in PDims}

\* len(sys.argv)
sys_argv_len(args) == 1 + Cardinality(DOMAIN args)

\* lines 36 to 39: with fewer than two arguments the usage is printed and
\* exit() ends the script, with exit status 0
Gdal2RoipacUsage ==
  /\ At("gdal2roipac", "start")
  /\ IF sys_argv_len(argv) < 3
     THEN /\ pc' = "exit"
          /\ status' = 0
          /\ UNCHANGED raised
     ELSE Goto("convert")
  /\ UNCHANGED <<runs, clos, master, slave, sidecars, first_date, last_date, planes,
                 meta_dict, h5file, f_open, h5>>
  /\ UNCHANGED <<envVars, codecVars, footprintVars, prmVars>>

\* lines 46 to the end: gdal.Open (None when the file cannot be opened), the
\* raster written as OUT_FILE, its .rsc and .xml
Gdal2RoipacConvert ==
  /\ At("gdal2roipac", "convert")
  /\ IF "tif" \notin DOMAIN disk
     THEN /\ Fail("AttributeError")
          /\ UNCHANGED <<planes, sidecars>>
     ELSE /\ planes' = [digital_elevation_model |-> disk.tif]
          /\ sidecars' = [rsc |-> [WIDTH |-> Shape(disk.tif)[2],
                                   FILE_LENGTH |-> Shape(disk.tif)[1],
                                   X_FIRST |-> GmtsarGeoTransform.x_first,
                                   Y_FIRST |-> GmtsarGeoTransform.y_first,
                                   X_STEP |-> GmtsarGeoTransform.x_step,
                                   Y_STEP |-> GmtsarGeoTransform.y_step]]
          /\ pc' = "exit"
          /\ status' = 0
          /\ UNCHANGED <<raised, f_open>>
  /\ UNCHANGED <<runs, clos, master, slave, first_date, last_date, meta_dict,
                 h5file, h5>>
  /\ UNCHANGED <<envVars, codecVars, footprintVars, prmVars>>

(***************************************************************************)
(* The output file: name, open, datasets, attributes, close.               *)
(***************************************************************************)
\* '%s_%s_%03d_%04d_%s-%s_%04d_%05d' % (...): the formatted fields
filename(meta) ==
  <<meta["mission"],
    \* '%s' % x of an optional string
    IF meta["beam_swath"] = None THEN "None" ELSE meta["beam_swath"][1],
    meta["relative_orbit"],
    meta["frame"], meta["first_date"], meta["last_date"],
    meta["temporal_baseline"], meta["baseline_perp"]>>

\* h5file = ... ; f = h5py.File(h5file) ; group = f.create_group('GEOCODE')
\* (create_group raises ValueError when the group exists)
OpenContainer ==
  /\ pc = "open"
  /\ IF ~({"mission", "beam_swath", "relative_orbit", "frame", "first_date",
            "last_date", "temporal_baseline", "baseline_perp"}
             \subseteq DOMAIN meta_dict)
     THEN /\ Fail("KeyError")
          /\ UNCHANGED <<h5file, h5>>
     ELSE /\ h5file' = filename(meta_dict)
          /\ IF "GEOCODE" \in h5.groups
             THEN /\ h5' = h5py_File(h5)
                  /\ Fail("ValueError")
             ELSE /\ h5' = [h5py_File(h5) EXCEPT !.groups = {"GEOCODE"}]
                  /\ f_open' = TRUE
                  /\ Goto(IF conv = "gmtsar" THEN "geo" ELSE "bands")
  /\ UNCHANGED <<runs, clos, master, slave, sidecars, first_date, last_date, planes, meta_dict>>
  /\ UNCHANGED <<envVars, codecVars, footprintVars, prmVars>>

\* gmtsar2hdf5 lines 166 to 178: dset = gdal.Open('phase_ll.grd'), None when
\* the file cannot be opened; the geo-transform and the bounding box
GmtsarGeo ==
  /\ At("gmtsar", "geo")
  /\ IF "wrapped_interferogram" \notin DOMAIN disk.grd
     THEN /\ Fail("AttributeError")
          /\ UNCHANGED meta_dict
     ELSE LET shape == Shape(disk.grd["wrapped_interferogram"])
              geo == GmtsarGeoTransform
          IN  /\ meta_dict' =
                   Update(Update(meta_dict,
                            [X_FIRST |-> geo.x_first, X_STEP |-> geo.x_step,
                             X_UNIT |-> "degrees", Y_FIRST |-> geo.y_first,
                             Y_STEP |-> geo.y_step, Y_UNIT |-> "degrees",
                             FILE_LENGTH |-> shape[1], WIDTH |-> shape[2]]),
                          bounding_box(geo, shape[1], shape[2]))
              /\ Goto("bands")
              /\ UNCHANGED f_open
  /\ UNCHANGED <<runs, clos, master, slave, sidecars, first_date, last_date, planes, h5file, h5>>
  /\ UNCHANGED <<envVars, codecVars, footprintVars, prmVars>>

\* the datasets a script writes with 'if not name in group', in its order
GuardedDatasets(script) ==
  CASE script = "gmtsar" -> GmtsarDatasets
    [] script = "roipac" ->
         <<"unwrapped_interferogram", "wrapped_interferogram", "correlation",
           "incidence_angle">>
    [] OTHER ->
         <<"unwrapped_interferogram", "wrapped_interferogram", "correlation",
           "incidence_angle">>

\* the create_dataset calls. roipac2hdf5 tests 'digital_elevatino_model',
\* which is never in the group, and so always creates
\* 'digital_elevation_model': h5py raises when that name exists
WriteBands ==
  /\ pc = "bands"
  /\ LET done == write_datasets(h5, GuardedDatasets(conv), IF conv = "gmtsar" THEN disk.grd ELSE planes)
     IN  IF done.err # "none"
         THEN /\ h5' = done.file
              /\ Fail(done.err)
         ELSE IF conv = "roipac"
              THEN IF "digital_elevation_model" \in DOMAIN done.file.dsets
                   THEN /\ h5' = done.file
                        /\ Fail("ValueError")
                   ELSE /\ h5' = create_dataset(done.file, "digital_elevation_model",
                                                planes["digital_elevation_model"])
                        /\ Goto("attrs")
                        /\ UNCHANGED f_open
              ELSE /\ h5' = done.file
                   /\ Goto("attrs")
                   /\ UNCHANGED f_open
  /\ UNCHANGED <<runs, clos, master, slave, sidecars, first_date, last_date, planes,
                 meta_dict, h5file>>
  /\ UNCHANGED <<envVars, codecVars, footprintVars, prmVars>>

\* the keys of the scripts' meta_dict in ascending order (sorted())
AsciiOrder ==
  <<
    "FILE_LENGTH", "H_BASELINE_TOP_HDR", "LAT_REF1", "LAT_REF2",
    "LAT_REF3", "LAT_REF4", "LON_REF1", "LON_REF2", "LON_REF3", "LON_REF4",
    "P_BASELINE_BOTTOM_HDR", "P_BASELINE_TOP_HDR", "WIDTH", "X_FIRST",
    "X_STEP", "X_UNIT", "Y_FIRST", "Y_STEP", "Y_UNIT", "average_coherence",
    "baseline_perp", "beam_mode", "beam_swath", "description", "east",
    "ellipsoid", "first_date", "flight_direction", "frame", "history",
    "incidence_angle", "last_date", "length", "look_direction",
    "master_absolute_orbit", "master_doppler", "master_platform",
    "master_sensing_start", "master_sensing_stop", "max_coherence",
    "mission", "north", "polarization", "prf",
    "processing_atmos_correct_method", "processing_dem",
    "processing_facility", "processing_software",
    "processing_software_version", "processing_type", "producer_names",
    "relative_orbit", "scene_footprint", "slave_absolute_orbit",
    "slave_doppler", "slave_platform", "slave_sensing_start",
    "slave_sensing_stop", "south", "temporal_baseline", "wavelength",
    "west", "width", "xstep", "ystep"
  >>

\* the keys of isce2hdf5's meta_dict in the order main() first assigns them
\* (a Python 3 dict iterates in insertion order)
IsceInsertionOrder ==
  <<
    "mission", "beam_swath", "relative_orbit", "first_date", "last_date",
    "processing_type", "scene_footprint", "beam_mode", "frame",
    "flight_direction", "look_direction", "wavelength", "polarization",
    "prf", "master_platform", "master_absolute_orbit",
    "master_sensing_start", "master_sensing_stop", "slave_platform",
    "slave_absolute_orbit", "slave_sensing_start", "slave_sensing_stop",
    "width", "length", "xstep", "ystep", "north", "south", "west", "east",
    "ellipsoid", "incidence_angle", "producer_names",
    "processing_facility", "processing_software",
    "processing_software_version", "processing_atmos_correct_method",
    "processing_dem", "history", "average_coherence", "max_coherence",
    "baseline_perp", "temporal_baseline"
  >>

\* the keys of dict in the order of the sequence all
Ordered(all, dict) == SelectSeq(all, LAMBDA k : k \in DOMAIN dict)

\* the orders in which a script can write the attributes: sorted (gmtsar),
\* insertion order (isce, Python 3), and the hash order of a Python 2 dict
\* (roipac), of which the model takes ascending and descending
AttrOrders(script, dict) ==
  CASE script = "gmtsar" -> {Ordered(AsciiOrder, dict)}
    [] script = "roipac" ->
         LET q == Ordered(AsciiOrder, dict)
         IN  {q, [k \in 1..Len(q) |-> q[Len(q) + 1 - k]]}
    [] OTHER -> {Ordered(IsceInsertionOrder, dict)}

\* for key,value in ...: f.attrs[key] = value
WriteAttrs ==
  /\ pc = "attrs"
  /\ \E order \in AttrOrders(conv, meta_dict) :
       LET done == write_attrs(h5, order, meta_dict, OptionalKeys)
       IN  /\ h5' = done.file
           /\ IF done.err # "none"
              THEN Fail(done.err)
              ELSE /\ Goto("close")
                   /\ UNCHANGED f_open
  /\ UNCHANGED <<runs, clos, master, slave, sidecars, first_date, last_date, planes,
                 meta_dict, h5file>>
  /\ UNCHANGED <<envVars, codecVars, footprintVars, prmVars>>

\* f.close(), and main returns: exit status 0
Close ==
  /\ pc = "close"
  /\ f_open' = FALSE
  /\ pc' = "exit"
  /\ status' = 0
  /\ UNCHANGED <<raised, runs, clos, master, slave, sidecars, first_date, last_date,
                 planes, meta_dict, h5file, h5>>
  /\ UNCHANGED <<envVars, codecVars, footprintVars, prmVars>>

\* main's variables before a run
FreshRun ==
  /\ pc = "start"
  /\ status = -1
  /\ raised = "none"
  /\ clos = EmptyDict
  /\ master = EmptyDict
  /\ slave = EmptyDict
  /\ sidecars = EmptyDict
  /\ first_date = None
  /\ last_date = None
  /\ planes = EmptyDict
  /\ meta_dict = EmptyDict
  /\ h5file = None
  /\ f_open = FALSE

\* the script is started again, on the same command line and input files
Rerun ==
  /\ pc = "exit"
  /\ runs < MaxRuns
  /\ runs' = runs + 1
  /\ pc' = "start"
  /\ status' = -1
  /\ raised' = "none"
  /\ clos' = EmptyDict
  /\ master' = EmptyDict
  /\ slave' = EmptyDict
  /\ sidecars' = EmptyDict
  /\ first_date' = None
  /\ last_date' = None
  /\ planes' = EmptyDict
  /\ meta_dict' = EmptyDict
  /\ h5file' = None
  /\ f_open' = FALSE
  /\ UNCHANGED h5
  /\ UNCHANGED <<envVars, codecVars, footprintVars, prmVars>>

PipelineIdle ==
  /\ conv = "none"
  /\ argv = EmptyDict
  /\ disk = EmptyDict
  /\ runs = 0
  /\ h5 = NoContainer
  /\ FreshRun

Init ==
  /\ \/ /\ conv = "gmtsar"
        /\ argv \in GmtsarArgvs
        /\ disk \in GmtsarDisks
     \/ /\ conv = "roipac"
        /\ argv \in RoipacArgvs
        /\ disk \in RoipacDisks
     \/ /\ conv = "isce"
        /\ argv \in IsceArgvs
        /\ disk \in IsceDisks
     \/ /\ conv = "gdal2roipac"
        /\ argv \in Gdal2RoipacArgvs
        /\ disk \in Gdal2RoipacDisks
  /\ runs = 1
  /\ h5 = NoContainer
  /\ FreshRun
  /\ CodecIdle
  /\ FootprintIdle
  /\ PrmIdle

vars == <<codecVars, envVars, runVars, footprintVars, prmVars>>

\* the call read_float32(infile, length, width)
DecodeFloat32 ==
  /\ c_layout = "float32"
  /\ c_out = Pending
  /\ c_out' = read_float32(c_file, c_length, c_width)
  /\ UNCHANGED <<c_layout, c_length, c_width, c_file, c_srcA, c_srcB>>
  /\ UNCHANGED <<envVars, runVars, footprintVars, prmVars>>

\* the call read_complex64(infile, length, width)
DecodeComplex64 ==
  /\ c_layout = "complex64"
  /\ c_out = Pending
  /\ c_out' = read_complex64(c_file, c_length, c_width)
  /\ UNCHANGED <<c_layout, c_length, c_width, c_file, c_srcA, c_srcB>>
  /\ UNCHANGED <<envVars, runVars, footprintVars, prmVars>>

CodecNext == DecodeFloat32 \/ DecodeComplex64

\* the raster readers alone
InitCodec ==
  /\ c_layout \in {"float32", "complex64"}
  /\ \E d \in Dims :
       /\ c_length = d[1]
       /\ c_width = d[2]
       /\ \E skew \in (0 - MaxSkew)..MaxSkew :
            \/ /\ c_layout = "float32"
               /\ c_srcA \in Arrays(d[1], d[2], FloatSamples)
               /\ c_srcB \in Arrays(d[1], d[2], FloatSamples)
               /\ c_file = Skewed(Interleave(c_srcA, c_srcB), skew, 0)
            \/ /\ c_layout = "complex64"
               /\ c_srcA \in Arrays(d[1], d[2], ComplexSamples)
               /\ c_srcB = <<>>
               /\ c_file = Skewed(Flatten(c_srcA), skew, <<0, 0>>)
  /\ c_out = Pending
  /\ PipelineIdle
  /\ FootprintIdle
  /\ PrmIdle

SpecCodec == InitCodec /\ [][CodecNext]_vars

FootprintNext == FootprintFromRsc \/ FootprintFromLog \/ FootprintFromPickle

\* the footprint functions alone
InitFootprint ==
  /\ fp_corners \in [1..4 -> (0..MaxCoord) \X (0..MaxCoord)]
  /\ fp_path = "none"
  /\ fp_out = <<>>
  /\ PipelineIdle
  /\ CodecIdle
  /\ PrmIdle

SpecFootprint == InitFootprint /\ [][FootprintNext]_vars

PrmNext == ReadPrmOpen \/ ReadPrmLine \/ ReadPrmReturn

\* read_prm alone
InitPrm ==
  /\ p_file \in PrmFiles
  /\ p_i = 0
  /\ p_dict = EmptyDict
  /\ p_state = "called"
  /\ p_open = FALSE
  /\ PipelineIdle
  /\ CodecIdle
  /\ FootprintIdle

SpecPrm == InitPrm /\ [][PrmNext]_vars

Next ==
  \/ GmtsarParse
  \/ GmtsarReadPrm
  \/ GmtsarResolve
  \/ RoipacParse
  \/ RoipacReadRsc
  \/ RoipacDecode
  \/ RoipacResolve
  \/ IsceParse
  \/ IsceReadXml
  \/ IsceDecode
  \/ IsceResolve
  \/ Gdal2RoipacUsage
  \/ Gdal2RoipacConvert
  \/ OpenContainer
  \/ GmtsarGeo
  \/ WriteBands
  \/ WriteAttrs
  \/ Close
  \/ Rerun

Spec == Init /\ [][Next]_vars

(***************************************************************************)
(* Properties of the raster readers (SpecCodec).                           *)
(***************************************************************************)
\* the reader has been called on a raster of at least one row and column
Decoded(layout) ==
  /\ c_layout = layout
  /\ c_length >= 1
  /\ c_width >= 1
  /\ c_out # Pending

\* C1: read_float32 is a round trip: a file of 2*length rows holding A's row
\* k at row 2k and B's row k at row 2k+1 decodes to exactly (A, B), plane A
\* first and plane B second, for all length >= 1, width >= 1 and all A, B.
C1_RoundTrip ==
  (Decoded("float32") /\ c_file = Interleave(c_srcA, c_srcB))
    => c_out = Returned(c_srcA, c_srcB)

\* a 2 x 2 file of two different planes, each with two different rows, has
\* been decoded
C1_Witness ==
  /\ Decoded("float32")
  /\ c_length = 2
  /\ c_width = 2
  /\ c_file = Interleave(c_srcA, c_srcB)
  /\ c_srcA # c_srcB
  /\ c_srcA[1] # c_srcA[2]
  /\ c_srcA[1] # c_srcB[1]
  /\ c_out.err = "none"
  /\ c_out.a = c_srcA

\* C9: a reader raises exactly when the file's size differs from the
\* layout's expected size: too short and too long are both rejected, the
\* exact size is accepted, for both layouts.
C9_ShortReadIff ==
  LET \* the number of samples the layout holds for the dimensions:
      \* 2*length*width float32 samples, length*width complex samples
      ExpectedSamples == IF c_layout = "float32" THEN 2 * c_length * c_width
                         ELSE c_length * c_width
  IN (Decoded("float32") \/ Decoded("complex64"))
       => ((c_out.err # "none") <=> (Len(c_file) # ExpectedSamples))


\* the read_complex64 call was on a file of exactly length*width samples,
\* the samples of c_srcA row by row
DecodedWhole ==
  /\ Decoded("complex64")
  /\ c_file = Flatten(c_srcA)

\* element (i, j) of both planes is computed from sample number
\* (i-1)*width + j of the file (1-based)
ElementwiseOf(file) ==
  /\ c_out.err = "none"
  /\ \A i \in 1..c_length : \A j \in 1..c_width :
       /\ c_out.a[i][j] = hypot2(file[(i - 1) * c_width + j])
       /\ c_out.p[i][j] = arctan2(file[(i - 1) * c_width + j])

\* all phases of the returned plane are in lo..hi (units of pi/4)
PhasesIn(lo, hi) ==
  \A i \in 1..c_length : \A j \in 1..c_width : c_out.p[i][j] \in lo..hi

C19_RejectsEmptyDims ==
  (c_out # Pending /\ (c_length <= 0 \/ c_width <= 0)) => c_out.err # "none"
(***************************************************************************)
(* Properties of the converters (Spec).                                    *)
(***************************************************************************)
\* C2: a value the caller gave on the command line (-mission, -flight) is
\* the value of the attribute whatever the sidecar files hold, and of a key
\* present in two merged sidecar files the later merged file's value stays.
C2_Precedence ==
  /\ conv = "gmtsar" =>
       \A k \in ({"mission", "flight_direction"} \cap DOMAIN argv) \cap DOMAIN meta_dict :
          meta_dict[k] = argv[k]
  /\ (conv = "roipac" /\ meta_dict # EmptyDict) =>
       \A k \in DOMAIN sidecars["wraprsc"] \cap DOMAIN sidecars["rsc_baseline"] :
          meta_dict[k] = sidecars["rsc_baseline"][k]

\* C3: the output file is never open while a mandatory field (mission,
\* swath, relative_orbit, first_date, last_date, processing_type) is absent
\* from the resolved metadata: the run fails before the file is opened.
C3_MandatoryBeforeOpen ==
  LET \* the fields every product must have
      Mandatory == {"mission", "beam_swath", "relative_orbit", "first_date",
                    "last_date", "processing_type"}
      \* the field is there and is not None
      Present(key) == /\ key \in DOMAIN meta_dict
                      /\ key \in OptionalKeys => meta_dict[key] # None
  IN f_open => \A k \in Mandatory : Present(k)

\* C4: a run that finds the GEOCODE group and datasets of an earlier run in
\* the output file does not fail on opening it: it goes on to write the
\* datasets that are missing and leaves those it finds as they are.
C4_RerunOpens ==
  [][(pc = "open" /\ "GEOCODE" \in h5.groups /\ h5.dsets # EmptyDict)
        => (pc' # "exit" /\ h5'.dsets = h5.dsets)]_vars

\* C6: all datasets of one output file have the same (length, width).
C6_SameShape ==
  \A a \in DOMAIN h5.dsets : \A b \in DOMAIN h5.dsets :
     Shape(h5.dsets[a]) = Shape(h5.dsets[b])

\* C7: a file a converter has written has the attributes north, south, east
\* and west, with north = y_first, south = north + length*y_step,
\* west = x_first, east = west + width*x_step.
C7_BoundingBox ==
  (pc = "exit" /\ status = 0 /\ h5.exists) =>
     /\ {"north", "south", "east", "west"} \subseteq DOMAIN h5.attrs
     /\ conv = "gmtsar" =>
          /\ h5.attrs["north"] = h5.attrs["Y_FIRST"]
          /\ h5.attrs["south"] =
               h5.attrs["north"] + h5.attrs["FILE_LENGTH"] * h5.attrs["Y_STEP"]
          /\ h5.attrs["west"] = h5.attrs["X_FIRST"]
          /\ h5.attrs["east"] =
               h5.attrs["west"] + h5.attrs["WIDTH"] * h5.attrs["X_STEP"]
     /\ conv = "isce" =>
          /\ h5.attrs["north"] = disk.xml.Coordinate2.startingvalue
          /\ h5.attrs["south"] =
               h5.attrs["north"] + h5.attrs["length"] * h5.attrs["ystep"]
          /\ h5.attrs["west"] = disk.xml.Coordinate1.startingvalue
          /\ h5.attrs["east"] =
               h5.attrs["west"] + h5.attrs["width"] * h5.attrs["xstep"]

\* C8: temporal_baseline is the absolute difference in days of the dates
\* written as first_date and last_date, whatever the times of day of the two
\* acquisitions (so it is the same when master and slave are swapped).
C8_TemporalBaseline ==
  {"first_date", "last_date", "temporal_baseline"} \subseteq DOMAIN meta_dict =>
     meta_dict["temporal_baseline"] =
       Abs(meta_dict["last_date"] - meta_dict["first_date"])

\* C10: a first run that fails reading a sidecar file, resolving the
\* metadata or opening or decoding a raster leaves no output file: the file
\* is opened only after all of these.
C10_AbortLeavesNoFile ==
  LET \* the errors of reading a sidecar file, resolving the metadata and
      \* opening or decoding a raster
      InputErrors == {"KeyError", "IndexError", "ValueError", "AttributeError"}
  IN (runs = 1 /\ pc = "exit" /\ raised \in InputErrors) => ~h5.exists


\* C11: when a run has written its file, every entry of meta_dict is an
\* attribute of the file with the same value, and the attributes were
\* written in ascending order of their keys, in all three converters.
C11_AttrsSorted ==
  (pc = "exit" /\ status = 0 /\ h5.exists) =>
     /\ \A k \in DOMAIN meta_dict :
          k \in DOMAIN h5.attrs /\ h5.attrs[k] = meta_dict[k]
     /\ h5.attr_log = Ordered(AsciiOrder, meta_dict)

\* C12: a file whose scene_footprint came from footprintFromLogFile (every
\* file isce2hdf5 writes) has an attribute flagging the footprint as of low
\* confidence: an attribute other than the metadata fields themselves.
C12_LogFootprintFlagged ==
  LET \* the metadata fields main() of isce2hdf5 assigns
      IsceFields == {IsceInsertionOrder[k] : k \in 1..Len(IsceInsertionOrder)}
  IN (conv = "isce" /\ "scene_footprint" \in DOMAIN h5.attrs) =>
        \E k \in DOMAIN h5.attrs : k \notin IsceFields

\* C15: a script that ends with a required argument missing ends with a
\* non-zero exit status, and a script ends with exit status 0 only when no
\* argument was missing and no error was raised (it has written its output).
C15_ExitStatus ==
  LET \* a required argument is missing from the command line
      MissingArgument ==
        CASE conv = "gmtsar" -> ~(GmtsarRequired \subseteq DOMAIN argv)
          [] conv = "roipac" -> ~(RoipacRequired \subseteq DOMAIN argv)
          [] conv = "gdal2roipac" -> sys_argv_len(argv) < 3
          [] OTHER -> FALSE
  IN pc = "exit" =>
        /\ MissingArgument => status # 0
        /\ raised # "none" => status # 0
        /\ status = 0 => (~MissingArgument /\ raised = "none")

\* C16: after a run of a converter the output file, when there is one, has
\* exactly one group, GEOCODE, with at most 5 datasets, each named from the
\* role vocabulary, no name twice.
C16_Layout ==
  LET \* the names a dataset can have
      RoleVocabulary ==
        {"wrapped_interferogram", "unwrapped_interferogram",
         "wrapped_filtered_interferogram", "correlation", "incidence_angle",
         "digital_elevation_model"}
  IN (pc = "exit" /\ h5.exists) =>
        /\ h5.groups = {"GEOCODE"}
        /\ DOMAIN h5.dsets \subseteq RoleVocabulary
        /\ Cardinality(DOMAIN h5.dsets) <= 5

\* roipac2hdf5 has written its five datasets
C16_Witness ==
  /\ pc = "exit"
  /\ status = 0
  /\ conv = "roipac"
  /\ h5.groups = {"GEOCODE"}
  /\ Cardinality(DOMAIN h5.dsets) = 5

\* C18: a file written with a correlation dataset has the attributes
\* average_coherence and max_coherence, the mean and the maximum of exactly
\* that dataset (so average_coherence <= max_coherence).
C18_CoherenceStats ==
  (pc = "exit" /\ status = 0 /\ "correlation" \in DOMAIN h5.dsets) =>
     /\ {"average_coherence", "max_coherence"} \subseteq DOMAIN h5.attrs
     /\ h5.attrs["average_coherence"] = np_mean(h5.dsets["correlation"])
     /\ h5.attrs["max_coherence"] = np_nanmax(h5.dsets["correlation"])
     /\ h5.attrs["average_coherence"] <= h5.attrs["max_coherence"]
(***************************************************************************)

\* C21: the step of isce2hdf5 that calls footprintFromLogFile never ends
\* the run with an error, whatever the number and place of the corner
\* lines of isce.log (none, fewer than four, one on the last line).
C21_LogFootprintNeverAborts ==
  [][At("isce", "resolve") => raised' = "none"]_vars

\* C22: in gmtsar2hdf5 every optional override the caller supplies (-frame,
\* -master_orbit, -slave_orbit, -beam_mode, -polarization,
\* -atmos_correct_method) is in the resolved metadata with the supplied
\* value, 0 and the empty string included, and a run with its metadata
\* resolved does not fail formatting the output file name, with or without
\* -frame.
C22_OverridesKept ==
  (conv = "gmtsar" /\ meta_dict # EmptyDict) =>
     /\ \A k \in {"frame", "master_absolute_orbit", "slave_absolute_orbit",
                  "beam_mode", "polarization",
                  "processing_atmos_correct_method"} \cap DOMAIN argv :
           k \in DOMAIN meta_dict /\ meta_dict[k] = argv[k]
     /\ raised # "KeyError"

\* C23: in isce2hdf5 the resolved metadata always has relative_orbit: the
\* TRACK_NUMBER when it is a number; when it is 'None' and the mission
\* contains 'CSK', (ORBIT_NUMBER - 193) mod 237 for CSKS4 and ORBIT_NUMBER
\* mod 237 otherwise, within 0..236, with the mission shortened to 'CSK';
\* and for every other mission with TRACK_NUMBER 'None' it is still there.
C23_RelativeOrbitSet ==
  (conv = "isce" /\ meta_dict # EmptyDict) =>
     LET mission == strip_bytes_repr(master.MISSION)
     IN  /\ "relative_orbit" \in DOMAIN meta_dict
         /\ master.TRACK_NUMBER = "7" => meta_dict["relative_orbit"] = 7
         /\ (master.TRACK_NUMBER = "None" /\ mission \in {"CSKS4", "CSKS1"}) =>
              /\ meta_dict["relative_orbit"] =
                   IF mission = "CSKS4" THEN (master.ORBIT_NUMBER - 193) % 237
                   ELSE master.ORBIT_NUMBER % 237
              /\ meta_dict["relative_orbit"] \in 0..236
              /\ meta_dict["mission"] = "CSK"
(* Properties of the footprint functions (SpecFootprint).                  *)
(***************************************************************************)
\* corner k written longitude first
Vertex(k) == <<fp_corners[k][2], fp_corners[k][1]>>

\* nearEarly, farEarly, farLate, nearLate, nearEarly
RingEarlyFirst == <<Vertex(1), Vertex(2), Vertex(4), Vertex(3), Vertex(1)>>

\* nearEarly, nearLate, farLate, farEarly, nearEarly
RingNearFirst == <<Vertex(1), Vertex(3), Vertex(4), Vertex(2), Vertex(1)>>

\* C5 as stated: from four corners the footprint on the .rsc path and on
\* the log path lists the 5 vertices near-early, far-early, far-late,
\* near-late, near-early, each longitude first.
C5_FootprintAsStated ==
  fp_path \in {"rsc", "log"} => fp_out = RingEarlyFirst

\* C5: from four corners the footprint has exactly 5 vertices, each
\* longitude first, the last equal to the first; the log and the pickle
\* function list near-early, far-early, far-late, near-late, near-early, the
\* .rsc path lists corners 1, 3, 4, 2, 1: near-early, near-late, far-late,
\* far-early, near-early.
C5_Footprint ==
  fp_path # "none" =>
     /\ Len(fp_out) = 5
     /\ fp_out[1] = fp_out[5]
     /\ fp_path \in {"log", "pickle"} => fp_out = RingEarlyFirst
     /\ fp_path = "rsc" => fp_out = RingNearFirst

\* the .rsc path has built the footprint of four different corners
C5_Witness ==
  /\ fp_path = "rsc"
  /\ \A i \in 1..4 : \A j \in 1..4 : i # j => fp_corners[i] # fp_corners[j]
  /\ fp_out = RingNearFirst
  /\ fp_out # RingEarlyFirst


(***************************************************************************)
(* Properties of read_prm (SpecPrm).                                       *)
(***************************************************************************)
\* the key of a line: what is before its first '=', trimmed
KeyOf(line) == strip(SubSeq(line, 1, find(line, "=") - 1))

\* C13: read_prm splits each line at its first '=' only: the value of a key
\* is the whole remainder of the line after the first '=' (further '='
\* included), trimmed and without the newline, the key is trimmed, and of
\* several lines with one key the last gives the value.
C13_SplitAtFirst ==
  LET \* the value of a line: all that is after its first '=', without the
      \* newline, trimmed
      RemainderOf(line) ==
        strip(replace_newline(SubSeq(line, find(line, "=") + 1, Len(line))))
      \* the last line of the file with this key
      LastWith(key) ==
        CHOOSE i \in 1..Len(p_file) :
          /\ find(p_file[i], "=") # 0 /\ KeyOf(p_file[i]) = key
          /\ \A j \in (i + 1)..Len(p_file) :
               ~(find(p_file[j], "=") # 0 /\ KeyOf(p_file[j]) = key)
  IN p_state = "returned" =>
        /\ DOMAIN p_dict = {KeyOf(p_file[i]) : i \in 1..Len(p_file)}
        /\ \A key \in DOMAIN p_dict :
             p_dict[key] = RemainderOf(p_file[LastWith(key)])

\* C14: read_prm ignores blank lines and comment lines (no error, no
\* entry), and raises an error exactly when a line that is neither blank nor
\* a comment has no '='.
C14_LineClasses ==
  LET \* a line of whitespace only
      Blank(line) == strip(line) = <<>>
      \* a line whose first character after leading whitespace is '#'
      Comment(line) == strip(line) # <<>> /\ Head(strip(line)) = "#"
      \* the lines that count: neither blank nor comment
      Entries ==
        {i \in 1..Len(p_file) : ~Blank(p_file[i]) /\ ~Comment(p_file[i])}
  IN /\ p_state \in {"returned", "IndexError"} =>
          ((p_state # "returned")
             <=> (\E i \in Entries : find(p_file[i], "=") = 0))
     /\ p_state = "returned" =>
          DOMAIN p_dict = {KeyOf(p_file[i]) : i \in Entries}


\* C20: when read_prm has returned or raised, the file it opened is closed:
\* no handle survives the reader on the success path or on an error path.
C20_HandleReleased ==
  p_state \in {"returned", "IndexError"} => ~p_open

=============================================================================
